---- MODULE Spec2Model ----
(***************************************************************************)
(* A model of bpf/kprobe_pwru.c: the kprobe handler that filters traced    *)
(* socket buffers, fills an event record and pushes it to the perf event   *)
(* array.  Kernel memory is read through bpf_probe_read / BPF_CORE_READ,   *)
(* which never fault: a failed read leaves zero in the destination.        *)
(* Addresses are kept as four octets (the u32 is only ever compared for    *)
(* equality and copied); ports are the raw 16-bit header values.           *)
(* event.ts and event.addr (the clock and the instruction pointer) are     *)
(* values of the platform that no part of the handler reads back; they are *)
(* left out of the event record.                                           *)
(***************************************************************************)
EXTENDS Integers, Sequences, FiniteSets, TLC

VARIABLES
    cfg_map,          \* the one-entry configuration array: key 0 -> struct config, or empty
    built,            \* TRUE when the object was compiled with OUTPUT_SKB
    ctx,              \* per CPU: the sk_buff the argument register points at when the probe fires
    print_skb_id,     \* the global dump counter
    print_skb_map,    \* dump slots written so far: slot -> text (an unwritten slot is zero-filled)
    p,                \* the function-static struct btf_ptr of set_skb_btf (its .ptr)
    print_stack_map,  \* the stack-trace table: the stack hashes stored in its buckets
    events,           \* per CPU: the records on the perf ring, not yet read by user space
    pc,               \* per CPU: where the handler running on it stands
    event,            \* per CPU: the handler's local struct event_t
    id,               \* per CPU: the local id of set_skb_btf
    raw,              \* per CPU: the value __sync_fetch_and_add returned (before % 256)
    verdict,          \* per CPU: what the current invocation's filter() call did
    emitted,          \* per CPU: bpf_perf_event_output calls made by the current invocation
    tickets           \* history: every value handed out by the fetch-and-add, with the slot used

vars == <<cfg_map, built, ctx, print_skb_id, print_skb_map, p, print_stack_map,
          events, pc, event, id, raw, verdict, emitted, tickets>>

shared == <<print_skb_id, print_skb_map, p, print_stack_map>>

(***************************************************************************)
(* Program constants.                                                      *)
(***************************************************************************)
IPPROTO_TCP == 6
IPPROTO_UDP == 17
NSlots == 256
StackBuckets == 256
IphdrSize == 20
TcphdrSize == 20
UdphdrSize == 8

(***************************************************************************)
(* Bounds of the model.                                                    *)
(***************************************************************************)
MaxId == 2
WrapMax == 257
RingCap == 1

CPUs == {1, 2}
ZeroAddr == <<0, 0, 0, 0>>
NullPtr == [addr |-> 0, mark |-> 0, len |-> 0]

(***************************************************************************)
(* The bounded field reader.  ReadField is a read of one sk_buff field     *)
(* (fails when the sk_buff pointer is bad); ReadAt is a read of `size`     *)
(* bytes at offset `off` of a header of which `len` bytes are mapped.      *)
(* Both leave `zero` in the destination on failure.                        *)
(***************************************************************************)
ReadField(skb, v, zero) == IF skb.skb_ok THEN v ELSE zero

HdrLen(skb, len) == IF skb.skb_ok THEN len ELSE 0

ReadAt(len, off, size, v, zero) == IF off + size <= len THEN v ELSE zero

(***************************************************************************)
(* struct config helpers.  An address union is 16 bytes: v4addr is bytes   *)
(* 0..3, w1 stands for bytes 4..7 and d2 for bytes 8..15, so that          *)
(* pad[0] == 0 iff v4addr and w1 are zero, and pad[1] == 0 iff d2 is.      *)
(***************************************************************************)
Pad0IsZero(a) == a.v4addr = ZeroAddr /\ a.w1 = 0

Pad1IsZero(a) == a.d2 = 0

ZeroUnion == [v4addr |-> ZeroAddr, w1 |-> 0, d2 |-> 0]

ZeroCfg ==
    [mark |-> 0, ipv6 |-> 0, saddr |-> ZeroUnion, daddr |-> ZeroUnion,
     l4_proto |-> 0, sport |-> 0, dport |-> 0,
     output_timestamp |-> 0, output_meta |-> 0, output_tuple |-> 0,
     output_skb |-> 0, output_stack |-> 0]

(***************************************************************************)
(* filter_mark.  ret is the function's result, reads the sk_buff fields    *)
(* it read.                                                                *)
(***************************************************************************)
filter_mark_always_compares(skb, cfg) ==
    [ret |-> ReadField(skb, skb.mark, 0) = cfg.mark, reads |-> {"mark"}]

filter_mark(skb, cfg) ==
    IF cfg.mark # 0
    THEN [ret |-> ReadField(skb, skb.mark, 0) = cfg.mark, reads |-> {"mark"}]
    ELSE [ret |-> TRUE, reads |-> {}]

(***************************************************************************)
(* The empty-tuple test that opens filter_l3_and_l4.                       *)
(***************************************************************************)
TupleEmpty_lost_not(cfg) ==
    /\ cfg.l4_proto # 0
    /\ Pad0IsZero(cfg.saddr) /\ Pad1IsZero(cfg.saddr)
    /\ Pad0IsZero(cfg.daddr) /\ Pad1IsZero(cfg.daddr)
    /\ cfg.sport = 0 /\ cfg.dport = 0

TupleEmpty(cfg) ==
    /\ cfg.l4_proto = 0
    /\ Pad0IsZero(cfg.saddr) /\ Pad1IsZero(cfg.saddr)
    /\ Pad0IsZero(cfg.daddr) /\ Pad1IsZero(cfg.daddr)
    /\ cfg.sport = 0 /\ cfg.dport = 0

(***************************************************************************)
(* The reads filter_l3_and_l4 makes once the tuple is not empty.           *)
(***************************************************************************)
IpVsn(first_byte) == first_byte \div 16

FilterFirstByte(skb) == ReadAt(HdrLen(skb, skb.l3_len), 0, 1, skb.ip_first, 0)

FilterIp4(skb) ==
    LET l3 == HdrLen(skb, skb.l3_len)
    IN  [saddr    |-> ReadAt(l3, 0, IphdrSize, skb.saddr, ZeroAddr),
         daddr    |-> ReadAt(l3, 0, IphdrSize, skb.daddr, ZeroAddr),
         protocol |-> ReadAt(l3, 0, IphdrSize, skb.ip_protocol, 0)]

FilterL4(skb, size) ==
    LET l4 == HdrLen(skb, skb.l4_len)
    IN  [source |-> ReadAt(l4, 0, size, skb.source, 0),
         dest   |-> ReadAt(l4, 0, size, skb.dest, 0)]

SkbOffsets == {"head", "network_header", "transport_header"}

(***************************************************************************)
(* The port part of filter_l3_and_l4: entered when a port is configured.   *)
(***************************************************************************)
filter_ports_any_proto(skb, cfg, ip4) ==
    LET l4 == FilterL4(skb, TcphdrSize)
    IN  [ret   |-> /\ ~(cfg.sport # 0 /\ l4.source # cfg.sport)
                   /\ ~(cfg.dport # 0 /\ l4.dest # cfg.dport),
         reads |-> {"tcphdr"}]

filter_ports(skb, cfg, ip4) ==
    IF ip4.protocol = IPPROTO_TCP
    THEN LET tcp == FilterL4(skb, TcphdrSize)
         IN  [ret   |-> /\ ~(cfg.sport # 0 /\ tcp.source # cfg.sport)
                        /\ ~(cfg.dport # 0 /\ tcp.dest # cfg.dport),
              reads |-> {"tcphdr"}]
    ELSE IF ip4.protocol = IPPROTO_UDP
    THEN LET udp == FilterL4(skb, UdphdrSize)
         IN  [ret   |-> /\ ~(cfg.sport # 0 /\ udp.source # cfg.sport)
                        /\ ~(cfg.dport # 0 /\ udp.dest # cfg.dport),
              reads |-> {"udphdr"}]
    ELSE [ret |-> FALSE, reads |-> {}]

(***************************************************************************)
(* filter_l3_and_l4.                                                       *)
(***************************************************************************)
filter_l3_and_l4_anyvsn(skb, cfg) ==
    LET ip4 == FilterIp4(skb)
        rd  == SkbOffsets \cup {"iphdr[0]", "iphdr"}
    IN  IF TupleEmpty(cfg) THEN [ret |-> TRUE, reads |-> {}]
        ELSE IF cfg.saddr.v4addr # ZeroAddr /\ ip4.saddr # cfg.saddr.v4addr
        THEN [ret |-> FALSE, reads |-> rd]
        ELSE IF cfg.daddr.v4addr # ZeroAddr /\ ip4.daddr # cfg.daddr.v4addr
        THEN [ret |-> FALSE, reads |-> rd]
        ELSE IF cfg.l4_proto # 0 /\ ip4.protocol # cfg.l4_proto
        THEN [ret |-> FALSE, reads |-> rd]
        ELSE IF cfg.dport # 0 \/ cfg.sport # 0
        THEN LET r == filter_ports(skb, cfg, ip4)
             IN  [ret |-> r.ret, reads |-> rd \cup r.reads]
        ELSE [ret |-> TRUE, reads |-> rd]

filter_l3_and_l4(skb, cfg) ==
    LET ip4 == FilterIp4(skb)
        rd0 == SkbOffsets \cup {"iphdr[0]"}
        rd  == rd0 \cup {"iphdr"}
    IN  IF TupleEmpty(cfg) THEN [ret |-> TRUE, reads |-> {}]
        ELSE IF IpVsn(FilterFirstByte(skb)) # 4
        THEN [ret |-> FALSE, reads |-> rd0]
        ELSE IF cfg.saddr.v4addr # ZeroAddr /\ ip4.saddr # cfg.saddr.v4addr
        THEN [ret |-> FALSE, reads |-> rd]
        ELSE IF cfg.daddr.v4addr # ZeroAddr /\ ip4.daddr # cfg.daddr.v4addr
        THEN [ret |-> FALSE, reads |-> rd]
        ELSE IF cfg.l4_proto # 0 /\ ip4.protocol # cfg.l4_proto
        THEN [ret |-> FALSE, reads |-> rd]
        ELSE IF cfg.dport # 0 \/ cfg.sport # 0
        THEN LET r == filter_ports(skb, cfg, ip4)
             IN  [ret |-> r.ret, reads |-> rd \cup r.reads]
        ELSE [ret |-> TRUE, reads |-> rd]

(***************************************************************************)
(* filter: filter_mark && filter_l3_and_l4, the second evaluated only when *)
(* the first is true.                                                      *)
(***************************************************************************)
filter(skb, cfg) ==
    LET m == filter_mark(skb, cfg)
    IN  IF ~m.ret
        THEN [ret |-> FALSE, mark |-> FALSE, l3l4 |-> FALSE, tuple |-> FALSE,
              reads |-> m.reads, tuple_reads |-> {}]
        ELSE LET t == filter_l3_and_l4(skb, cfg)
             IN  [ret |-> t.ret, mark |-> TRUE, l3l4 |-> TRUE, tuple |-> t.ret,
                  reads |-> m.reads \cup t.reads, tuple_reads |-> t.reads]

(***************************************************************************)
(* set_meta and set_tuple, applied to a zeroed block.                      *)
(***************************************************************************)
ZeroMeta == [mark |-> 0, ifindex |-> 0, len |-> 0, mtu |-> 0, protocol |-> 0, pad |-> 0]

ZeroTuple ==
    [saddr |-> ZeroAddr, daddr |-> ZeroAddr, sport |-> 0, dport |-> 0,
     proto |-> 0, pad |-> ZeroAddr]

set_meta(skb, meta) ==
    LET dev_ok == skb.skb_ok /\ skb.dev_ok
    IN  [meta EXCEPT !.mark     = ReadField(skb, skb.mark, 0),
                     !.len      = ReadField(skb, skb.len, 0),
                     !.protocol = ReadField(skb, skb.protocol, 0),
                     !.ifindex  = IF dev_ok THEN skb.ifindex ELSE 0,
                     !.mtu      = IF dev_ok THEN skb.mtu ELSE 0]

set_tuple_same_offset(skb, tpl) ==
    LET l3     == HdrLen(skb, skb.l3_len)
        l4     == HdrLen(skb, skb.l4_len)
        proto  == ReadAt(l3, 9, 1, skb.ip_protocol, 0)
        ip_vsn == IpVsn(ReadAt(l3, 0, 1, skb.ip_first, 0))
        t1     == [tpl EXCEPT !.proto = proto]
        t2     == IF ip_vsn = 4
                  THEN [t1 EXCEPT !.saddr = ReadAt(l3, 12, 4, skb.saddr, ZeroAddr),
                                  !.daddr = ReadAt(l3, 16, 4, skb.daddr, ZeroAddr),
                                  !.pad   = ReadAt(l3, 16, 4, skb.daddr, ZeroAddr)]
                  ELSE t1
    IN  IF proto = IPPROTO_TCP \/ proto = IPPROTO_UDP
        THEN [t2 EXCEPT !.sport = ReadAt(l4, 0, 2, skb.source, 0),
                        !.dport = ReadAt(l4, 0, 2, skb.source, 0)]
        ELSE t2

set_tuple(skb, tpl) ==
    LET l3     == HdrLen(skb, skb.l3_len)
        l4     == HdrLen(skb, skb.l4_len)
        proto  == ReadAt(l3, 9, 1, skb.ip_protocol, 0)
        ip_vsn == IpVsn(ReadAt(l3, 0, 1, skb.ip_first, 0))
        t1     == [tpl EXCEPT !.proto = proto]
        t2     == IF ip_vsn = 4
                  THEN [t1 EXCEPT !.saddr = ReadAt(l3, 12, 4, skb.saddr, ZeroAddr),
                                  !.daddr = ReadAt(l3, 16, 4, skb.daddr, ZeroAddr),
                                  !.pad   = ReadAt(l3, 16, 4, skb.daddr, ZeroAddr)]
                  ELSE t1
    IN  IF proto = IPPROTO_TCP \/ proto = IPPROTO_UDP
        THEN [t2 EXCEPT !.sport = ReadAt(l4, 0, 2, skb.source, 0),
                        !.dport = ReadAt(l4, 2, 2, skb.dest, 0)]
        ELSE t2

(***************************************************************************)
(* struct event_t event = {}                                               *)
(***************************************************************************)
ZeroEvent ==
    [pid |-> 0, type |-> 0, skb_addr |-> 0, print_skb_id |-> 0,
     meta |-> ZeroMeta, tuple |-> ZeroTuple, print_stack_id |-> 0]

(***************************************************************************)
(* What is remembered of an invocation's filter() call: entered (the       *)
(* handler has run on this CPU), called (filter() was called), ret (its    *)
(* result), mark (filter_mark's result), l3l4 (filter_l3_and_l4 was        *)
(* evaluated), tuple (its result), and the fields each of them read.       *)
(***************************************************************************)
NoVerdict ==
    [entered |-> FALSE, called |-> FALSE, ret |-> FALSE, mark |-> FALSE,
     l3l4 |-> FALSE, tuple |-> FALSE, reads |-> {}, tuple_reads |-> {}]

(***************************************************************************)
(* bpf_map_lookup_elem on an array map: the set holding the value stored   *)
(* under the key, empty for NULL.                                          *)
(***************************************************************************)
bpf_map_lookup_elem(map, key) == IF key \in DOMAIN map THEN {map[key]} ELSE {}

Cfg == cfg_map[0]

(***************************************************************************)
(* The part of set_output that only touches the local event: set_meta and  *)
(* set_tuple under their flags.                                            *)
(***************************************************************************)
set_output_local(skb, ev, cfg) ==
    LET e1 == IF cfg.output_meta # 0
              THEN [ev EXCEPT !.meta = set_meta(skb, ev.meta)] ELSE ev
    IN  IF cfg.output_tuple # 0
        THEN [e1 EXCEPT !.tuple = set_tuple(skb, e1.tuple)] ELSE e1

Dumps(cfg) == cfg.output_skb # 0 /\ built

(***************************************************************************)
(* p.ptr after the first part of the handler: set_skb_btf stores the       *)
(* sk_buff in it, and is reached only by an accepted object whose          *)
(* configuration asks for the dump.                                        *)
(***************************************************************************)
StaticPtr_before_filter(skb, cfg, accepted) == IF Dumps(cfg) THEN skb ELSE p

StaticPtr(skb, cfg, accepted) == IF accepted /\ Dumps(cfg) THEN skb ELSE p

AfterDump(cfg) == IF cfg.output_stack # 0 THEN "stack" ELSE "output"

(***************************************************************************)
(* kprobe_skb_N fires on CPU c: handle_everything up to its first access   *)
(* to shared memory.  A NULL lookup result would go straight to the        *)
(* output (the branch of line 318; the array map never produces it); a     *)
(* rejected object returns 0 here; an accepted one gets its                *)
(* metadata and tuple and, when it is to be dumped, stores the sk_buff in  *)
(* the static btf_ptr.                                                     *)
(***************************************************************************)
Enter(c) ==
    /\ pc[c] = "idle"
    /\ LET skb  == ctx[c]
           look == bpf_map_lookup_elem(cfg_map, 0)
       IN  IF look = {}
           THEN /\ event' = [event EXCEPT ![c] = ZeroEvent]
                /\ verdict' = [verdict EXCEPT ![c] = [NoVerdict EXCEPT !.entered = TRUE]]
                /\ pc' = [pc EXCEPT ![c] = "output"]
                /\ p' = p
           ELSE LET cfg == Cfg
                    f   == filter(skb, cfg)
                IN  /\ verdict' = [verdict EXCEPT ![c] =
                           [entered |-> TRUE, called |-> TRUE, ret |-> f.ret,
                            mark |-> f.mark, l3l4 |-> f.l3l4, tuple |-> f.tuple,
                            reads |-> f.reads, tuple_reads |-> f.tuple_reads]]
                    /\ p' = StaticPtr(skb, cfg, f.ret)
                    /\ IF ~f.ret
                       THEN /\ event' = [event EXCEPT ![c] = ZeroEvent]
                            /\ pc' = [pc EXCEPT ![c] = "idle"]
                       ELSE /\ event' = [event EXCEPT ![c] =
                                   set_output_local(skb, ZeroEvent, cfg)]
                            /\ pc' = [pc EXCEPT ![c] =
                                   IF Dumps(cfg) THEN "fetch" ELSE AfterDump(cfg)]
    /\ emitted' = [emitted EXCEPT ![c] = 0]
    /\ UNCHANGED <<cfg_map, built, ctx, print_skb_id, print_skb_map,
                   print_stack_map, events, id, raw, tickets>>

(***************************************************************************)
(* id = __sync_fetch_and_add(&print_skb_id, 1) % 256                       *)
(***************************************************************************)
fetch_and_add_lost(v) == [ret |-> v, new |-> IF v % 2 = 1 THEN v ELSE v + 1]

fetch_and_add(v) == [ret |-> v, new |-> v + 1]

SlotOf(v) == v % NSlots

FetchAdd(c) ==
    /\ pc[c] = "fetch"
    /\ LET r == fetch_and_add(print_skb_id)
       IN  /\ print_skb_id' = r.new
           /\ raw' = [raw EXCEPT ![c] = r.ret]
           /\ id' = [id EXCEPT ![c] = SlotOf(r.ret)]
           /\ tickets' = Append(tickets, <<r.ret, SlotOf(r.ret)>>)
    /\ pc' = [pc EXCEPT ![c] = "render"]
    /\ UNCHANGED <<cfg_map, built, ctx, print_skb_map, p, print_stack_map,
                   events, event, verdict, emitted>>

(***************************************************************************)
(* The lookup of the slot and bpf_snprintf_btf(str, ..., &p, ...): the     *)
(* text of the sk_buff that p.ptr points at now is written to the slot.    *)
(* ok = FALSE is a negative return: nothing is recorded in the event.      *)
(***************************************************************************)
Render(ptr) == <<"sk_buff", ptr.addr, ptr.mark, ptr.len>>

Snprintf(c, ok) ==
    /\ pc[c] = "render"
    /\ IF id[c] \notin 0 .. NSlots - 1
       THEN UNCHANGED <<print_skb_map, event>>
       ELSE IF ~ok
       THEN UNCHANGED <<print_skb_map, event>>
       ELSE /\ print_skb_map' =
                   [s \in DOMAIN print_skb_map \cup {id[c]} |->
                       IF s = id[c] THEN Render(p) ELSE print_skb_map[s]]
            /\ event' = [event EXCEPT ![c].print_skb_id = id[c]]
    /\ pc' = [pc EXCEPT ![c] = AfterDump(Cfg)]
    /\ UNCHANGED <<cfg_map, built, ctx, print_skb_id, p, print_stack_map,
                   events, id, raw, verdict, emitted, tickets>>

(***************************************************************************)
(* bpf_get_stackid(ctx, &print_stack_map, BPF_F_FAST_STACK_CMP) for a      *)
(* stack whose hash is h: the bucket is h mod the table size; a bucket     *)
(* holding the same hash is reused, a bucket holding another one is not    *)
(* replaced (-EEXIST), a failed walk is -EFAULT.                           *)
(***************************************************************************)
bpf_get_stackid(table, h, walked) ==
    LET b    == h % StackBuckets
        same == {x \in table : x % StackBuckets = b}
    IN  IF ~walked THEN [ret |-> -14, table |-> table]
        ELSE IF h \in table THEN [ret |-> b, table |-> table]
        ELSE IF same # {} THEN [ret |-> -17, table |-> table]
        ELSE [ret |-> b, table |-> table \cup {h}]

GetStackid(c, h, walked) ==
    /\ pc[c] = "stack"
    /\ LET r == bpf_get_stackid(print_stack_map, h, walked)
       IN  /\ print_stack_map' = r.table
           /\ event' = [event EXCEPT ![c].print_stack_id = r.ret]
    /\ pc' = [pc EXCEPT ![c] = "output"]
    /\ UNCHANGED <<cfg_map, built, ctx, print_skb_id, print_skb_map, p,
                   events, id, raw, verdict, emitted, tickets>>

(***************************************************************************)
(* The tail of handle_everything: stamp the event, push it to this CPU's   *)
(* ring and return 0; the locals of the invocation are gone after it.      *)
(* read = TRUE is a run where user space, polling the ring, takes its      *)
(* records before anything else happens.                                   *)
(***************************************************************************)
Pid(c) == 1000 + c

Stamp(c, ev) == [ev EXCEPT !.pid = Pid(c), !.skb_addr = ctx[c].addr]

Output(c, read) ==
    /\ pc[c] = "output"
    /\ events' = [events EXCEPT ![c] =
                     IF read THEN <<>> ELSE Append(@, Stamp(c, event[c]))]
    /\ emitted' = [emitted EXCEPT ![c] = @ + 1]
    /\ event' = [event EXCEPT ![c] = ZeroEvent]
    /\ id' = [id EXCEPT ![c] = 0]
    /\ raw' = [raw EXCEPT ![c] = 0]
    /\ pc' = [pc EXCEPT ![c] = "idle"]
    /\ UNCHANGED <<cfg_map, built, ctx, print_skb_id, print_skb_map, p,
                   print_stack_map, verdict, tickets>>

(***************************************************************************)
(* User space reads the records of one CPU's ring.                         *)
(***************************************************************************)
Drain(c) ==
    /\ events[c] # <<>>
    /\ events' = [events EXCEPT ![c] = <<>>]
    /\ UNCHANGED <<cfg_map, built, ctx, print_skb_id, print_skb_map, p,
                   print_stack_map, pc, event, id, raw, verdict, emitted, tickets>>

(***************************************************************************)
(* The traced objects and configurations the model is run on.              *)
(***************************************************************************)
Skb(addr, ok, mark, dev_ok, l3_len, first, proto, flow, l4_len) ==
    [addr |-> addr, skb_ok |-> ok, mark |-> mark, len |-> 60, protocol |-> 8,
     dev_ok |-> dev_ok, ifindex |-> 2, mtu |-> 1500,
     l3_len |-> l3_len, ip_first |-> first, ip_protocol |-> proto,
     saddr |-> flow[1], daddr |-> flow[2],
     l4_len |-> l4_len, source |-> flow[3], dest |-> flow[4]]

Flow1 == <<(<<192, 168, 1, 1>>), (<<192, 168, 1, 2>>), 4444, 443>>
Flow2 == <<(<<10, 0, 0, 1>>), (<<10, 0, 0, 2>>), 1234, 80>>
Flow3 == <<(<<192, 168, 1, 1>>), (<<10, 0, 0, 2>>), 4444, 80>>
Flow4 == <<(<<10, 0, 0, 1>>), (<<192, 168, 1, 2>>), 1234, 443>>

\* mark 5, IPv4 TCP 192.168.1.1:4444 -> 192.168.1.2:443
ObjA == Skb(1, TRUE, 5, TRUE, 20, 69, IPPROTO_TCP, Flow1, 20)
\* an IPv6 packet whose byte at the offset of iphdr.protocol is 6
ObjB == Skb(2, TRUE, 5, TRUE, 20, 96, IPPROTO_TCP, Flow2, 20)
\* a pointer that cannot be read, and one with no device
ObjC == Skb(3, FALSE, 5, FALSE, 20, 69, IPPROTO_TCP, Flow1, 20)
ObjD == Skb(4, TRUE, 5, FALSE, 20, 69, IPPROTO_UDP, Flow2, 8)
\* mark 7, IPv4 UDP 10.0.0.1:1234 -> 10.0.0.2:80
ObjE == Skb(5, TRUE, 7, TRUE, 20, 69, IPPROTO_UDP, Flow2, 8)

SmallObj == {ObjA, ObjB, ObjC, ObjD}

WideObj ==
    {Skb(1, TRUE, m, TRUE, 20, fb, pr, fl, l4) :
        m \in {0, 5}, fb \in {69, 96}, pr \in {IPPROTO_TCP, IPPROTO_UDP, 1},
        fl \in {Flow1, Flow2, Flow3, Flow4}, l4 \in {0, 8, 20}}
    \cup {Skb(1, TRUE, 5, TRUE, l3, fb, IPPROTO_TCP, Flow1, 20) :
        l3 \in {0, 1}, fb \in {69, 96}}
    \cup {ObjC}

Unions(a) ==
    {ZeroUnion, [ZeroUnion EXCEPT !.v4addr = a],
     [ZeroUnion EXCEPT !.w1 = 1], [ZeroUnion EXCEPT !.d2 = 1]}

WideCfg ==
    {[ZeroCfg EXCEPT !.mark = m, !.saddr = sa, !.daddr = da, !.l4_proto = pr,
                     !.sport = sp, !.dport = dp, !.output_tuple = ot] :
        m \in {0, 5, 6}, sa \in Unions(<<192, 168, 1, 1>>),
        da \in Unions(<<192, 168, 1, 2>>) \ {[ZeroUnion EXCEPT !.w1 = 1]},
        pr \in {0, IPPROTO_TCP, IPPROTO_UDP}, sp \in {0, 4444},
        dp \in {0, 80, 81, 443}, ot \in {0, 1}}

FlagCfg ==
    {[ZeroCfg EXCEPT !.mark = m, !.dport = dp, !.output_meta = om,
                     !.output_tuple = ot, !.output_skb = os, !.output_stack = ok,
                     !.output_timestamp = ok] :
        m \in {5, 6}, dp \in {0, 443}, om \in {0, 1}, ot \in {0, 1},
        os \in {0, 1}, ok \in {0, 1}}

DumpCfg == [ZeroCfg EXCEPT !.output_skb = 1]

SmpCfg ==
    {DumpCfg, [ZeroCfg EXCEPT !.mark = 6, !.output_skb = 1, !.output_stack = 1]}
    \cup {[ZeroCfg EXCEPT !.mark = 5, !.output_timestamp = ts, !.output_meta = om,
                          !.output_tuple = ot, !.output_skb = os, !.output_stack = ok] :
            ts \in {0, 1}, om \in {0, 1}, ot \in {0, 1}, os \in {0, 1}, ok \in {0, 1}}

(***************************************************************************)
(* cfg_map is a BPF_MAP_TYPE_ARRAY with max_entries 1: its entry 0 exists  *)
(* from the moment the map is created, zero-filled until the loader        *)
(* writes it, so the map always holds one struct config under key 0.       *)
(***************************************************************************)
Present(cfg) == [k \in {0} |-> cfg]

Hashes == {1, 257}

(***************************************************************************)
(* The state when the programs have been loaded and attached.              *)
(***************************************************************************)
InitRest ==
    /\ print_skb_id = 0
    /\ print_skb_map = [s \in {} |-> <<>>]
    /\ p = NullPtr
    /\ print_stack_map = {}
    /\ events = [c \in CPUs |-> <<>>]
    /\ pc = [c \in CPUs |-> "idle"]
    /\ event = [c \in CPUs |-> ZeroEvent]
    /\ id = [c \in CPUs |-> 0]
    /\ raw = [c \in CPUs |-> 0]
    /\ verdict = [c \in CPUs |-> NoVerdict]
    /\ emitted = [c \in CPUs |-> 0]
    /\ tickets = <<>>

Init ==
    /\ \E in \in (WideCfg \X WideObj) \cup (FlagCfg \X SmallObj) :
          /\ cfg_map = Present(in[1])
          /\ ctx = [c \in CPUs |-> in[2]]
          /\ built \in (IF in[1].output_skb # 0 THEN BOOLEAN ELSE {TRUE})
    /\ InitRest

InitSMP ==
    /\ cfg_map \in {Present(c) : c \in SmpCfg \cup {ZeroCfg}}
    /\ ctx \in [CPUs -> {ObjA, ObjE}]
    /\ built = TRUE
    /\ InitRest

InitWrap ==
    /\ cfg_map = Present(DumpCfg)
    /\ ctx = [c \in CPUs |-> ObjA]
    /\ built = TRUE
    /\ InitRest

(***************************************************************************)
(* A probe fires on a CPU whose ring has room, while the dump counter is   *)
(* below the bound of the run; the other steps are always allowed.         *)
(***************************************************************************)
Next ==
    \E c \in {1} :
        \/ (Len(events[c]) < RingCap /\ print_skb_id < MaxId /\ Enter(c))
        \/ FetchAdd(c)
        \/ \E ok \in BOOLEAN : Snprintf(c, ok)
        \/ \E h \in Hashes, w \in BOOLEAN : GetStackid(c, h, w)
        \/ \E read \in BOOLEAN : Output(c, read)
        \/ Drain(c)

NextSMP ==
    \E c \in CPUs :
        \/ (Len(events[c]) < RingCap /\ print_skb_id < MaxId /\ Enter(c))
        \/ FetchAdd(c)
        \/ \E ok \in BOOLEAN : Snprintf(c, ok)
        \/ \E h \in Hashes, w \in BOOLEAN : GetStackid(c, h, w)
        \/ \E read \in BOOLEAN : Output(c, read)
        \/ Drain(c)

NextWrap ==
    \E c \in CPUs :
        \/ (print_skb_id < WrapMax /\ Enter(c))
        \/ FetchAdd(c)
        \/ Snprintf(c, TRUE)
        \/ Output(c, TRUE)

Spec == Init /\ [][Next]_vars

SpecSMP == InitSMP /\ [][NextSMP]_vars

SpecWrap == InitWrap /\ [][NextWrap]_vars

(***************************************************************************)
(* Vocabulary of the properties.  A header that cannot be read reads as    *)
(* zero: NibbleOf is the version nibble of the first byte of the network   *)
(* header, Hdr the IPv4 header fields and HdrPorts the ports as the        *)
(* header of the object's own transport protocol gives them.               *)
(***************************************************************************)
HasCfg == bpf_map_lookup_elem(cfg_map, 0) # {}

NibbleOf(skb) == IF skb.skb_ok /\ skb.l3_len >= 1 THEN skb.ip_first \div 16 ELSE 0

HdrWhole(skb) == skb.skb_ok /\ skb.l3_len >= 20

Hdr(skb) ==
    IF HdrWhole(skb)
    THEN [saddr |-> skb.saddr, daddr |-> skb.daddr, protocol |-> skb.ip_protocol]
    ELSE [saddr |-> ZeroAddr, daddr |-> ZeroAddr, protocol |-> 0]

L4Whole(skb) ==
    /\ skb.skb_ok
    /\ \/ Hdr(skb).protocol = 6 /\ skb.l4_len >= 20
       \/ Hdr(skb).protocol = 17 /\ skb.l4_len >= 8

HdrPorts(skb) ==
    IF L4Whole(skb) THEN [source |-> skb.source, dest |-> skb.dest]
    ELSE [source |-> 0, dest |-> 0]

TupleFilterZero(cfg) ==
    /\ cfg.saddr = ZeroUnion /\ cfg.daddr = ZeroUnion
    /\ cfg.l4_proto = 0 /\ cfg.sport = 0 /\ cfg.dport = 0

SomeTupleField(cfg) ==
    \/ cfg.saddr.v4addr # ZeroAddr \/ cfg.daddr.v4addr # ZeroAddr
    \/ cfg.l4_proto # 0 \/ cfg.sport # 0 \/ cfg.dport # 0

Returned(c) == verdict[c].entered /\ pc[c] = "idle"

C2_RejectStep(c) ==
    /\ ~verdict[c].entered /\ verdict'[c].entered
    /\ verdict'[c].called /\ ~verdict'[c].ret

(***************************************************************************)
(* C2: an invocation whose filter() returns false emits no event and       *)
(* changes no shared state: the step in which CPU c's handler runs and     *)
(* rejects leaves the dump counter, the dump slots, the static btf_ptr,    *)
(* the stack-trace table and every ring as they were, and returns without  *)
(* having called the output; whatever the output flags.                    *)
(***************************************************************************)
C2_RejectionIsSilent ==
    [][\A c \in CPUs :
          C2_RejectStep(c) =>
             /\ UNCHANGED shared
             /\ UNCHANGED events
             /\ emitted'[c] = 0 /\ pc'[c] = "idle"]_vars

C2_Witness ==
    \E c \in CPUs :
        /\ HasCfg /\ Returned(c) /\ verdict[c].called /\ ~verdict[c].ret
        /\ emitted[c] = 0 /\ events[c] = <<>>
        /\ ctx[c].mark = 7 /\ Cfg.mark = 5
        /\ Cfg.output_skb = 1 /\ Cfg.output_stack = 1
        /\ print_skb_id > 0 /\ print_stack_map # {} /\ p # NullPtr

(***************************************************************************)
(* C3: filter_mark is true for every object when config.mark is 0, and     *)
(* otherwise true exactly when the mark read from the object (0 when the   *)
(* read fails) equals config.mark.                                         *)
(***************************************************************************)
C3_FilterMark ==
    \A c \in CPUs :
        verdict[c].called =>
            verdict[c].mark =
                (\/ Cfg.mark = 0
                 \/ (IF ctx[c].skb_ok THEN ctx[c].mark ELSE 0) = Cfg.mark)

C3_Witness ==
    /\ verdict[1].called /\ ~verdict[1].mark
    /\ ~ctx[1].skb_ok /\ ctx[1].mark = 5 /\ Cfg.mark = 5

(***************************************************************************)
(* C4: when the whole tuple filter of the configuration is zero (both      *)
(* address unions with their reserved words, protocol, both ports),        *)
(* filter_l3_and_l4 returns true for every object and reads none of its    *)
(* fields.                                                                 *)
(***************************************************************************)
C4_EmptyTupleAccepts ==
    \A c \in CPUs :
        (verdict[c].l3l4 /\ TupleFilterZero(Cfg)) =>
            /\ verdict[c].tuple
            /\ verdict[c].tuple_reads = {}

C4_Witness ==
    /\ verdict[1].l3l4 /\ TupleFilterZero(Cfg) /\ verdict[1].tuple
    /\ NibbleOf(ctx[1]) # 4
    /\ Cfg.mark = 5

(***************************************************************************)
(* C5: for an object whose version nibble is not 4 (a first byte that      *)
(* cannot be read counts as 0) and a configuration with a non-zero source  *)
(* address, destination address, protocol or port, filter_l3_and_l4        *)
(* returns false and the invocation emits no event.                        *)
(***************************************************************************)
C5_NonIPv4Rejected ==
    \A c \in CPUs :
        (verdict[c].called /\ NibbleOf(ctx[c]) # 4 /\ SomeTupleField(Cfg)) =>
            /\ verdict[c].l3l4 => ~verdict[c].tuple
            /\ ~verdict[c].ret
            /\ pc[c] = "idle" /\ emitted[c] = 0 /\ events[c] = <<>>

C5_Witness ==
    /\ verdict[1].l3l4 /\ ~verdict[1].tuple
    /\ NibbleOf(ctx[1]) = 6
    /\ Cfg.dport = 80 /\ ctx[1].dest = 80 /\ ctx[1].ip_protocol = 6
    /\ Cfg.mark = 0 /\ Cfg.sport = 0 /\ Cfg.l4_proto = 0
    /\ Cfg.saddr = ZeroUnion /\ Cfg.daddr = ZeroUnion

C6_Matches(skb, cfg) ==
    /\ cfg.saddr.v4addr # ZeroAddr => Hdr(skb).saddr = cfg.saddr.v4addr
    /\ cfg.daddr.v4addr # ZeroAddr => Hdr(skb).daddr = cfg.daddr.v4addr
    /\ cfg.l4_proto # 0 => Hdr(skb).protocol = cfg.l4_proto
    /\ cfg.sport # 0 => HdrPorts(skb).source = cfg.sport
    /\ cfg.dport # 0 => HdrPorts(skb).dest = cfg.dport
    /\ (cfg.sport # 0 \/ cfg.dport # 0) => Hdr(skb).protocol \in {6, 17}

C6_TcpTo80(skb) ==
    /\ skb.skb_ok /\ skb.l3_len = 20 /\ skb.ip_first = 69 /\ skb.ip_protocol = 6
    /\ skb.l4_len = 20
    /\ skb.saddr = <<10, 0, 0, 1>> /\ skb.daddr = <<10, 0, 0, 2>>
    /\ skb.source = 1234 /\ skb.dest = 80

C6_OnlyDport(cfg, port) ==
    /\ cfg.dport = port /\ cfg.sport = 0 /\ cfg.l4_proto = 0
    /\ cfg.saddr = ZeroUnion /\ cfg.daddr = ZeroUnion

(***************************************************************************)
(* C6: for an IPv4 object and a configuration whose tuple filter is not    *)
(* all zero, filter_l3_and_l4 returns true exactly when every non-zero     *)
(* configured field equals the header's field and, when a port is          *)
(* configured, the header's protocol is TCP or UDP.  So dest_port = 80     *)
(* alone accepts the TCP object 10.0.0.1:1234 -> 10.0.0.2:80, dest_port =  *)
(* 81 alone rejects it, and l4_proto = UDP rejects it whatever the ports.  *)
(***************************************************************************)
C6_TupleMatchIsExact ==
    \A c \in CPUs :
        (verdict[c].l3l4 /\ NibbleOf(ctx[c]) = 4 /\ ~TupleFilterZero(Cfg)) =>
            /\ verdict[c].tuple = C6_Matches(ctx[c], Cfg)
            /\ (C6_TcpTo80(ctx[c]) /\ C6_OnlyDport(Cfg, 80)) => verdict[c].tuple
            /\ (C6_TcpTo80(ctx[c]) /\ C6_OnlyDport(Cfg, 81)) => ~verdict[c].tuple
            /\ (C6_TcpTo80(ctx[c]) /\ Cfg.l4_proto = 17) => ~verdict[c].tuple

C6_Witness ==
    /\ verdict[1].l3l4 /\ verdict[1].tuple /\ Returned(1) /\ emitted[1] = 1
    /\ C6_TcpTo80(ctx[1]) /\ C6_OnlyDport(Cfg, 80)

C7_InFlight == {c \in CPUs : pc[c] \in {"render", "stack", "output"} /\ Dumps(Cfg)}

(***************************************************************************)
(* C7: every fetch-and-add on print_skb_id hands out a value no other call *)
(* got, the slot used is that value mod 256 and lies in 0..255, two calls  *)
(* use the same slot only if their values differ by a multiple of 256, and *)
(* the call that got 256 uses the slot of the call that got 0.  Stated of  *)
(* the newest ticket against all earlier ones (tickets only grows), and of *)
(* the calls in flight.                                                    *)
(***************************************************************************)
C7_DumpSlotAllocation ==
    /\ \A c \in C7_InFlight :
          /\ id[c] \in 0 .. 255
          /\ (raw[c] - id[c]) % 256 = 0
          /\ \A d \in C7_InFlight \ {c} :
                /\ raw[d] # raw[c]
                /\ id[d] = id[c] => (raw[d] - raw[c]) % 256 = 0
    /\ tickets # <<>> =>
          LET n == Len(tickets)
              t == tickets[n]
          IN  /\ t[2] \in 0 .. 255
              /\ (t[1] - t[2]) % 256 = 0
              /\ \A i \in 1 .. n - 1 :
                    /\ tickets[i][1] # t[1]
                    /\ tickets[i][2] = t[2] => (t[1] - tickets[i][1]) % 256 = 0
                    /\ (tickets[i][1] = 0 /\ t[1] = 256) => tickets[i][2] = t[2]

C7_Witness ==
    /\ Len(tickets) >= 257
    /\ tickets[1] = <<0, 0>>
    /\ \E i \in DOMAIN tickets : tickets[i] = <<256, 0>>
    /\ pc[1] = "render" /\ pc[2] = "render"
    /\ raw[1] = 0 /\ raw[2] = 256 /\ id[1] = id[2]

C8_Case(c) ==
    /\ HasCfg /\ verdict[c].called /\ verdict[c].ret
    /\ Cfg.output_tuple # 0
    /\ Cfg.output_meta = 0 /\ Cfg.output_skb = 0 /\ Cfg.output_stack = 0
    /\ HdrWhole(ctx[c]) /\ NibbleOf(ctx[c]) = 4
    /\ ctx[c].ip_protocol \in {6, 17} /\ ctx[c].l4_len >= 4

C8_EventOf(skb, e) ==
    /\ e.tuple.saddr = skb.saddr /\ e.tuple.daddr = skb.daddr
    /\ e.tuple.sport = skb.source /\ e.tuple.dport = skb.dest
    /\ e.tuple.proto = skb.ip_protocol
    /\ e.meta = ZeroMeta /\ e.print_skb_id = 0 /\ e.print_stack_id = 0

(***************************************************************************)
(* C8: an IPv4 TCP or UDP object whose headers can be read, accepted under *)
(* a configuration that sets the tuple flag and no other output flag,      *)
(* gives exactly one event; its tuple holds the object's source and        *)
(* destination address, ports and protocol, and its metadata, dump id and  *)
(* stack id are zero.                                                      *)
(***************************************************************************)
C8_TupleEndToEnd ==
    \A c \in CPUs :
        C8_Case(c) =>
            /\ pc[c] \in {"idle", "output"}
            /\ pc[c] = "output" => emitted[c] = 0 /\ C8_EventOf(ctx[c], event[c])
            /\ pc[c] = "idle" => emitted[c] = 1
            /\ \A i \in DOMAIN events[c] :
                  /\ C8_EventOf(ctx[c], events[c][i])
                  /\ events[c][i].skb_addr = ctx[c].addr

C8_Witness ==
    /\ C8_Case(1) /\ Returned(1) /\ emitted[1] = 1
    /\ Cfg.mark = 5 /\ Cfg.dport = 443 /\ ctx[1] = ObjA
    /\ Len(events[1]) = 1
    /\ events[1][1].tuple =
          [saddr |-> <<192, 168, 1, 1>>, daddr |-> <<192, 168, 1, 2>>,
           sport |-> 4444, dport |-> 443, proto |-> 6, pad |-> <<192, 168, 1, 2>>]

(***************************************************************************)
(* C9: for an object whose version nibble is not 4 the emitted tuple's     *)
(* addresses and ports are all zero, whatever byte was recorded as the     *)
(* protocol.                                                               *)
(***************************************************************************)
C9_NonIPv4TupleIsZero ==
    \A c \in CPUs :
        \A i \in DOMAIN events[c] :
            (HasCfg /\ NibbleOf(ctx[c]) # 4) =>
                /\ events[c][i].tuple.saddr = ZeroAddr
                /\ events[c][i].tuple.daddr = ZeroAddr
                /\ events[c][i].tuple.sport = 0
                /\ events[c][i].tuple.dport = 0

(***************************************************************************)
(* C10: when invocations dump into different slots, the slot recorded in   *)
(* an invocation's event holds the text of that invocation's own object.   *)
(***************************************************************************)
C10_OwnObjectInOwnSlot ==
    \A c \in CPUs :
        (/\ pc[c] \in {"stack", "output"}
         /\ event[c].print_skb_id # 0
         /\ \A d \in CPUs \ {c} : pc[d] \in {"render", "stack", "output"} => id[d] # id[c])
        => /\ event[c].print_skb_id \in DOMAIN print_skb_map
           /\ print_skb_map[event[c].print_skb_id] = Render(ctx[c])

====
